---- MODULE Spec2Model ----
(***************************************************************************)
(* Model of src/src/App.vue: the JSON -> TypeScript interface generator.   *)
(*                                                                         *)
(* Strings that the code inspects character by character (names, keys,     *)
(* enum values, type expressions) are sequences of one-character strings,  *)
(* so that the regular expressions of the code are computed, not assumed.  *)
(* The generated text is a sequence of lines; a line keeps the parts that  *)
(* the template literal of the code interpolates.                          *)
(***************************************************************************)
EXTENDS Integers, Sequences, FiniteSets, TLC

VARIABLES jsonInput, jsonError, typescriptOutput, interfaceName, options,
          interfaces, enumTypes, visits, lastCall

vars == <<jsonInput, jsonError, typescriptOutput, interfaceName, options,
          interfaces, enumTypes, visits, lastCall>>

(***************************************************************************)
(* Bounds of the explored inputs.                                          *)
(***************************************************************************)
MaxArrayLen == 3
MaxProps == 2

(***************************************************************************)
(* Characters and character classes used by the regular expressions.       *)
(***************************************************************************)
LowerSeq == <<"a","b","c","d","e","f","g","h","i","j","k","l","m",
              "n","o","p","q","r","s","t","u","v","w","x","y","z">>
UpperSeq == <<"A","B","C","D","E","F","G","H","I","J","K","L","M",
              "N","O","P","Q","R","S","T","U","V","W","X","Y","Z">>
DigitSeq == <<"0","1","2","3","4","5","6","7","8","9">>

Range(s) == {s[i] : i \in DOMAIN s}

Lower == Range(LowerSeq)
Upper == Range(UpperSeq)
Digit == Range(DigitSeq)

\* [a-zA-Z0-9_]
WordChar == Lower \cup Upper \cup Digit \cup {"_"}

\* String.prototype.toUpperCase on one character
toUpperCase(c) ==
    IF c \in Lower
    THEN UpperSeq[CHOOSE i \in DOMAIN LowerSeq : LowerSeq[i] = c]
    ELSE c

\* value of a decimal digit character
DigitVal(c) == (CHOOSE i \in DOMAIN DigitSeq : DigitSeq[i] = c) - 1

(***************************************************************************)
(* Type expressions returned for primitives.                               *)
(***************************************************************************)
T_null == <<"n","u","l","l">>
T_any == <<"a","n","y">>
T_string == <<"s","t","r","i","n","g">>
T_number == <<"n","u","m","b","e","r">>
T_boolean == <<"b","o","o","l","e","a","n">>
T_anyArray == <<"a","n","y","[","]">>
ArraySuffix == <<"[","]">>
EnumSuffix == <<"E","n","u","m">>
ItemSuffix == <<"I","t","e","m">>
UnionSep == <<" ","|"," ">>

(***************************************************************************)
(* String helpers of the code.                                             *)
(***************************************************************************)
RECURSIVE toCamelCase(_)
\* str.replace(/_([a-z])/g, (_, letter) => letter.toUpperCase())
toCamelCase(str) ==
    IF str = <<>> THEN <<>>
    ELSE IF Len(str) >= 2 /\ str[1] = "_" /\ str[2] \in Lower
         THEN <<toUpperCase(str[2])>> \o toCamelCase(SubSeq(str, 3, Len(str)))
         ELSE <<str[1]>> \o toCamelCase(Tail(str))

\* string.charAt(0).toUpperCase() + string.slice(1)
capitalizeFirstLetter(string) ==
    IF string = <<>> THEN <<>>
    ELSE <<toUpperCase(string[1])>> \o Tail(string)

IsWordChar(c) == c \in WordChar

\* name.replace(/[^a-zA-Z0-9_]/g, "")   (the record name of an object node)
sanitizeInterfaceName(name) == SelectSeq(name, IsWordChar)

\* /^[a-zA-Z_$][a-zA-Z0-9_$]*$/.test(key)
IsBareKey(key) ==
    /\ key # <<>>
    /\ key[1] \in Lower \cup Upper \cup {"_", "$"}
    /\ \A i \in DOMAIN key : key[i] \in WordChar \cup {"$"}

(***************************************************************************)
(* JSON values.  Every value is a record of the same shape:                *)
(*   t     : "null" | "boolean" | "number" | "string" | "array" | "object" *)
(*   s     : the characters of a string value                              *)
(*   items : the elements of an array                                      *)
(*   props : the entries [k, v] of an object, in property order            *)
(***************************************************************************)
JNull == [t |-> "null", s |-> <<>>, items |-> <<>>, props |-> <<>>]
JBool == [t |-> "boolean", s |-> <<>>, items |-> <<>>, props |-> <<>>]
JNum == [t |-> "number", s |-> <<>>, items |-> <<>>, props |-> <<>>]
JStr(chars) == [t |-> "string", s |-> chars, items |-> <<>>, props |-> <<>>]
JArr(elems) == [t |-> "array", s |-> <<>>, items |-> elems, props |-> <<>>]
JObj(entries) == [t |-> "object", s |-> <<>>, items |-> <<>>, props |-> entries]

(***************************************************************************)
(* Property order of a JavaScript object (OrdinaryOwnPropertyKeys): keys   *)
(* that are canonical array indices come first, in ascending numeric       *)
(* order, then the other string keys in the order of their creation.       *)
(* Object.entries, used at both loops of the code, follows this order.     *)
(***************************************************************************)
IsArrayIndex(key) ==
    /\ key # <<>>
    /\ \A i \in DOMAIN key : key[i] \in Digit
    /\ (Len(key) = 1 \/ key[1] # "0")

RECURSIVE NumVal(_)
NumVal(key) ==
    IF key = <<>> THEN 0
    ELSE 10 * NumVal(SubSeq(key, 1, Len(key) - 1)) + DigitVal(key[Len(key)])

InsertAt(seq, pos, e) ==
    SubSeq(seq, 1, pos - 1) \o <<e>> \o SubSeq(seq, pos, Len(seq))

\* obj[k] = v
ObjectSet(obj, k, v) ==
    IF \E i \in DOMAIN obj : obj[i].k = k
    THEN [i \in DOMAIN obj |-> IF obj[i].k = k THEN [k |-> k, v |-> v] ELSE obj[i]]
    ELSE IF IsArrayIndex(k)
         THEN LET later == {i \in DOMAIN obj :
                              \/ ~IsArrayIndex(obj[i].k)
                              \/ NumVal(obj[i].k) > NumVal(k)}
                  pos == IF later = {} THEN Len(obj) + 1
                         ELSE CHOOSE i \in later : \A j \in later : i <= j
              IN InsertAt(obj, pos, [k |-> k, v |-> v])
         ELSE Append(obj, [k |-> k, v |-> v])

\* Map.prototype.set: a new key is appended, an existing key keeps its
\* position and gets the new value
MapSet(map, key, val) ==
    IF \E i \in DOMAIN map : map[i].key = key
    THEN [i \in DOMAIN map |->
            IF map[i].key = key THEN [key |-> key, val |-> val] ELSE map[i]]
    ELSE Append(map, [key |-> key, val |-> val])

\* a spread that keeps every element
DedupeKeepsAll(seq) == seq

RECURSIVE Dedupe(_)
\* [...new Set(seq)]: the distinct elements in order of first occurrence
Dedupe(seq) ==
    IF seq = <<>> THEN <<>>
    ELSE LET init == Dedupe(SubSeq(seq, 1, Len(seq) - 1))
             last == seq[Len(seq)]
         IN IF \E i \in DOMAIN init : init[i] = last THEN init
            ELSE Append(init, last)

RECURSIVE Join(_, _)
\* Array.prototype.join(sep)
Join(seq, sep) ==
    IF seq = <<>> THEN <<>>
    ELSE IF Len(seq) = 1 THEN seq[1]
    ELSE seq[1] \o sep \o Join(Tail(seq), sep)

(***************************************************************************)
(* JSON text.  A text is empty, a well-formed document (the tree as it is  *)
(* written, object members in written order) or malformed (with the        *)
(* message the parser throws).  JSON.parse builds JavaScript objects, so   *)
(* the members of a decoded object are in JavaScript property order.       *)
(***************************************************************************)
EmptyText == [kind |-> "empty", doc |-> JNull, msg |-> ""]
JsonText(written) == [kind |-> "json", doc |-> written, msg |-> ""]
BadText(message) == [kind |-> "bad", doc |-> JNull, msg |-> message]

RECURSIVE ParseValue(_)
RECURSIVE ParseMembers(_, _)
RECURSIVE ParseElements(_)

ParseMembers(members, obj) ==
    IF members = <<>> THEN obj
    ELSE ParseMembers(Tail(members),
                      ObjectSet(obj, Head(members).k, ParseValue(Head(members).v)))

ParseElements(elems) ==
    IF elems = <<>> THEN <<>>
    ELSE <<ParseValue(Head(elems))>> \o ParseElements(Tail(elems))

ParseValue(written) ==
    IF written.t = "object" THEN JObj(ParseMembers(written.props, <<>>))
    ELSE IF written.t = "array" THEN JArr(ParseElements(written.items))
    ELSE written

\* JSON.parse(text): ok with the decoded value, or the thrown message
JSONParse(text) ==
    IF text.kind = "json"
    THEN [ok |-> TRUE, value |-> ParseValue(text.doc), msg |-> ""]
    ELSE IF text.kind = "empty"
    THEN [ok |-> FALSE, value |-> JNull, msg |-> "Unexpected end of JSON input"]
    ELSE [ok |-> FALSE, value |-> JNull, msg |-> text.msg]

(***************************************************************************)
(* generateTypeDefinition.  The two registries and the log of visited      *)
(* container nodes are threaded through the recursion in acc:              *)
(*   acc.interfaces : Map name -> properties   (entries [key, val])        *)
(*   acc.enumTypes  : Map name -> values       (entries [key, val])        *)
(*   acc.visits     : one record per visited array or object node, in the  *)
(*                    order in which the visits return                     *)
(* encl names the record of the nearest enclosing object node (<<>> when   *)
(* there is none); it is only written to the log.                          *)
(***************************************************************************)
Visit(kind, name, type, keys, itemTypes, encl) ==
    [kind |-> kind, name |-> name, type |-> type, keys |-> keys,
     itemTypes |-> itemTypes, encl |-> encl]

Logged(acc, v) == [acc EXCEPT !.visits = Append(@, v)]

KeysOf(entries) == [i \in DOMAIN entries |-> entries[i].k]

\* value.every((item) => typeof item === "string")
AllStrings(items) == \A i \in DOMAIN items : items[i].t = "string"

\* the string values of the items, as collected for the enum
StringItems(items) ==
    LET strs == SelectSeq(items, LAMBDA item : item.t = "string")
    IN [i \in DOMAIN strs |-> strs[i].s]

\* the type of an array whose elements have the types itemTypes
ArrayType(itemTypes) ==
    IF Cardinality(Range(itemTypes)) = 1
    THEN itemTypes[1] \o ArraySuffix
    ELSE <<"(">> \o Join(Dedupe(itemTypes), UnionSep) \o <<")">> \o ArraySuffix

\* registration under the name as it was passed in
RegisteredNameUnsanitized(name, interfaceName_) == name

\* the name under which an object node registers its properties
RegisteredName(name, interfaceName_) == interfaceName_

RECURSIVE generateTypeDefinition(_, _, _, _)
RECURSIVE MapItems(_, _, _, _)
RECURSIVE ForEntries(_, _, _, _)

\* value.map((item) => generateTypeDefinition(item, `${name}Item`, ...))
MapItems(items, itemName, acc, encl) ==
    IF items = <<>> THEN [types |-> <<>>, acc |-> acc]
    ELSE LET r == generateTypeDefinition(Head(items), itemName, acc, encl)
             rest == MapItems(Tail(items), itemName, r.acc, encl)
         IN [types |-> <<r.type>> \o rest.types, acc |-> rest.acc]

\* for (const [key, val] of Object.entries(value)) { ... properties[key] = propType }
ForEntries(entries, interfaceName_, properties, acc) ==
    IF entries = <<>> THEN [properties |-> properties, acc |-> acc]
    ELSE LET key == Head(entries).k
             propName == IF options.camelCase THEN toCamelCase(key) ELSE key
             r == generateTypeDefinition(
                      Head(entries).v,
                      interfaceName_ \o capitalizeFirstLetter(propName),
                      acc, <<interfaceName_>>)
         IN ForEntries(Tail(entries), interfaceName_,
                       ObjectSet(properties, key, r.type), r.acc)

generateTypeDefinition(value, name, acc, encl) ==
    IF value.t = "null"
    THEN [type |-> IF options.strictNullChecks THEN T_null ELSE T_any, acc |-> acc]
    ELSE IF value.t = "array"
    THEN IF Len(value.items) = 0
         THEN [type |-> T_anyArray,
               acc |-> Logged(acc, Visit("empty", name, T_anyArray, <<>>, <<>>, encl))]
         ELSE IF options.detectEnums /\ Len(value.items) > 0 /\ AllStrings(value.items)
         THEN LET enumName == name \o EnumSuffix
                  acc2 == [acc EXCEPT !.enumTypes =
                              MapSet(@, enumName, Dedupe(StringItems(value.items)))]
              IN [type |-> enumName,
                  acc |-> Logged(acc2, Visit("enum", name, enumName, <<>>, <<>>, encl))]
         ELSE LET m == MapItems(value.items, name \o ItemSuffix, acc, encl)
                  type == ArrayType(m.types)
              IN [type |-> type,
                  acc |-> Logged(m.acc, Visit("array", name, type, <<>>, m.types, encl))]
    ELSE IF value.t = "object"
    THEN LET interfaceName_ == sanitizeInterfaceName(name)
             f == ForEntries(value.props, interfaceName_, <<>>, acc)
             acc2 == [f.acc EXCEPT !.interfaces =
                         MapSet(@, RegisteredName(name, interfaceName_), f.properties)]
         IN [type |-> interfaceName_,
             acc |-> Logged(acc2, Visit("object", name, interfaceName_,
                                        KeysOf(value.props), <<>>, encl))]
    ELSE IF value.t = "string" THEN [type |-> T_string, acc |-> acc]
    ELSE IF value.t = "number" THEN [type |-> T_number, acc |-> acc]
    ELSE IF value.t = "boolean" THEN [type |-> T_boolean, acc |-> acc]
    ELSE [type |-> T_any, acc |-> acc]

(***************************************************************************)
(* Rendering.  A line is [kind, name, type, mark]:                         *)
(*   "enum"      `enum ${name} {`                                          *)
(*   "member"    `  ${name} = "${type}"${mark}`     mark is "," or ""      *)
(*   "interface" `interface ${name} {`                                     *)
(*   "prop"      `  ${name}${mark}: ${type};`       mark is "?" or ""      *)
(*   "close"     `}`                                                       *)
(*   "blank"     the empty line that follows a block                       *)
(***************************************************************************)
Line(kind, name, type, mark) ==
    [kind |-> kind, name |-> name, type |-> type, mark |-> mark]

CloseLines == <<Line("close", <<>>, <<>>, ""), Line("blank", <<>>, <<>>, "")>>

\* formatPropertyKey
formatPropertyKey(key) ==
    LET formattedKey == IF options.camelCase THEN toCamelCase(key) ELSE key
    IN IF ~IsBareKey(formattedKey)
       THEN <<"'">> \o formattedKey \o <<"'">>
       ELSE formattedKey

\* value.replace(/[^a-zA-Z0-9_]/g, "_").replace(/^[0-9]/, "_$&")
enumKey(value) ==
    LET replaced == [i \in DOMAIN value |->
                        IF value[i] \in WordChar THEN value[i] ELSE "_"]
    IN IF replaced # <<>> /\ replaced[1] \in Digit
       THEN <<"_">> \o replaced
       ELSE replaced

RECURSIVE Flatten(_)
Flatten(seqs) ==
    IF seqs = <<>> THEN <<>> ELSE Head(seqs) \o Flatten(Tail(seqs))

EnumBlock(entry) ==
    <<Line("enum", entry.key, <<>>, "")>>
    \o [i \in DOMAIN entry.val |->
          Line("member", enumKey(entry.val[i]), entry.val[i],
               IF i < Len(entry.val) THEN "," ELSE "")]
    \o CloseLines

InterfaceBlock(entry) ==
    <<Line("interface", entry.key, <<>>, "")>>
    \o [i \in DOMAIN entry.val |->
          Line("prop", formatPropertyKey(entry.val[i].k), entry.val[i].v,
               IF options.markOptional THEN "?" ELSE "")]
    \o CloseLines

RECURSIVE trim(_)
\* String.prototype.trim: the blank lines at both ends go
trim(lines) ==
    IF lines = <<>> THEN <<>>
    ELSE IF lines[Len(lines)].kind = "blank"
    THEN trim(SubSeq(lines, 1, Len(lines) - 1))
    ELSE IF lines[1].kind = "blank" THEN trim(Tail(lines))
    ELSE lines

\* the two loops of convertJsonToTypeScript and the final trim
Render(interfaces_, enumTypes_) ==
    LET enums == IF options.detectEnums
                 THEN Flatten([i \in DOMAIN enumTypes_ |-> EnumBlock(enumTypes_[i])])
                 ELSE <<>>
        records == Flatten([i \in DOMAIN interfaces_ |-> InterfaceBlock(interfaces_[i])])
    IN trim(enums \o records)

\* registries that live on from one call to the next
NewMapKeepsEntries(previous) == previous

\* new Map(): the registries a conversion call starts from
NewMap(previous) == <<>>

\* the walk of convertJsonToTypeScript, from the registries it is given
Walk(json, rootName, interfaces_, enumTypes_) ==
    generateTypeDefinition(json, rootName,
        [interfaces |-> interfaces_, enumTypes |-> enumTypes_, visits |-> <<>>],
        <<>>).acc

\* convertJsonToTypeScript(json, rootName): the output and, for the record,
\* the registries and the log the call ends with
convertJsonToTypeScript(json, rootName) ==
    LET acc == Walk(json, rootName, NewMap(interfaces), NewMap(enumTypes))
    IN [output |-> Render(acc.interfaces, acc.enumTypes),
        interfaces |-> acc.interfaces,
        enumTypes |-> acc.enumTypes,
        visits |-> acc.visits]

(***************************************************************************)
(* Names, keys and documents of the explored inputs.                       *)
(***************************************************************************)
RootObject == <<"R","o","o","t","O","b","j","e","c","t">>
OddRootName == <<"1","-","r">>
RootNames == {RootObject, OddRootName}

K_a_b == <<"a","_","b">>
K_aB == <<"a","B">>
K_a_dash_b == <<"a","-","b">>
K_1 == <<"1">>
K_empty == <<>>
Keys == {K_a_b, K_aB, K_a_dash_b, K_1, K_empty}

StringArray == JArr(<<JStr(K_a_b), JStr(K_a_dash_b)>>)
EmptyObject == JObj(<<>>)

Prims == {JNull, JBool, JNum, JStr(K_a_b), JStr(K_a_dash_b)}
ArrayItems == {JNull, JNum, JStr(K_a_b), JStr(K_a_dash_b), EmptyObject,
               JObj(<<[k |-> K_a_b, v |-> JNum]>>)}
MemberValues == {JNum, EmptyObject, StringArray}

ArraysOver(S, n) == {JArr(elems) : elems \in UNION {[1..m -> S] : m \in 0..n}}

DistinctKeys(m) ==
    {ks \in [1..m -> Keys] : \A i, j \in 1..m : i # j => ks[i] # ks[j]}

ObjectsOver(S, n) ==
    UNION {{JObj([i \in 1..m |-> [k |-> ks[i], v |-> vs[i]]]) :
               ks \in DistinctKeys(m), vs \in [1..m -> S]} : m \in 0..n}

\* the documents as written
Docs == Prims \cup ArraysOver(ArrayItems, MaxArrayLen)
              \cup ObjectsOver(MemberValues, MaxProps)

AllOptions == [detectEnums : BOOLEAN, camelCase : BOOLEAN,
               markOptional : BOOLEAN, strictNullChecks : BOOLEAN]

\* const options = reactive({...})
DefaultOptions == [detectEnums |-> TRUE, camelCase |-> FALSE,
                   markOptional |-> FALSE, strictNullChecks |-> TRUE]

(***************************************************************************)
(* The README's usage example and the document of loadSampleJson.          *)
(***************************************************************************)
S_id == <<"i","d">>
S_user_name == <<"u","s","e","r","_","n","a","m","e">>
S_john_doe == <<"j","o","h","n","_","d","o","e">>
S_email == <<"e","m","a","i","l">>
S_mail == <<"j","o","h","n","@","e","x","a","m","p","l","e",".","c","o","m">>
S_is_active == <<"i","s","_","a","c","t","i","v","e">>
S_roles == <<"r","o","l","e","s">>
S_admin == <<"a","d","m","i","n">>
S_user == <<"u","s","e","r">>
S_editor == <<"e","d","i","t","o","r">>
S_name == <<"n","a","m","e">>
S_JohnDoe == <<"J","o","h","n"," ","D","o","e">>
S_score == <<"s","c","o","r","e">>
S_address == <<"a","d","d","r","e","s","s">>
S_street == <<"s","t","r","e","e","t">>
S_MainSt == <<"1","2","3"," ","M","a","i","n"," ","S","t">>
S_city == <<"c","i","t","y">>
S_Boston == <<"B","o","s","t","o","n">>
S_zip == <<"z","i","p">>
S_02108 == <<"0","2","1","0","8">>
S_coordinates == <<"c","o","o","r","d","i","n","a","t","e","s">>
S_lat == <<"l","a","t">>
S_lng == <<"l","n","g">>
S_tags == <<"t","a","g","s">>
S_important == <<"i","m","p","o","r","t","a","n","t">>
S_customer == <<"c","u","s","t","o","m","e","r">>
S_metadata == <<"m","e","t","a","d","a","t","a">>
S_registration_date ==
    <<"r","e","g","i","s","t","r","a","t","i","o","n","_","d","a","t","e">>
S_date == <<"2","0","2","3","-","0","1","-","1","5","T","0","8",":","3","0",
            ":","0","0","Z">>

P(key, value) == [k |-> key, v |-> value]

ReadmeJson ==
    JObj(<<P(S_id, JNum), P(S_user_name, JStr(S_john_doe)),
           P(S_email, JStr(S_mail)), P(S_is_active, JBool),
           P(S_roles, JArr(<<JStr(S_admin), JStr(S_user)>>))>>)

SampleJson ==
    JObj(<<P(S_id, JNum), P(S_name, JStr(S_JohnDoe)), P(S_email, JStr(S_mail)),
           P(S_is_active, JBool), P(S_score, JNum),
           P(S_roles, JArr(<<JStr(S_admin), JStr(S_user), JStr(S_editor)>>)),
           P(S_address,
             JObj(<<P(S_street, JStr(S_MainSt)), P(S_city, JStr(S_Boston)),
                    P(S_zip, JStr(S_02108)),
                    P(S_coordinates, JObj(<<P(S_lat, JNum), P(S_lng, JNum)>>))>>)),
           P(S_tags, JArr(<<JStr(S_important), JStr(S_customer)>>)),
           P(S_metadata, JNull), P(S_registration_date, JStr(S_date))>>)

\* the texts a user types into the textarea
TypedTexts == {EmptyText, BadText("Unexpected token"), JsonText(ReadmeJson)}

(***************************************************************************)
(* State of the component.                                                 *)
(***************************************************************************)
NoError == [prefix |-> "", msg |-> ""]
\* lastCall records the arguments of the most recent conversion call and
\* whether a call with other arguments was made before it
NoCall == [set |-> FALSE, input |-> EmptyText, name |-> <<>>,
           opts |-> DefaultOptions, prior |-> FALSE]

\* const isValidJson = computed(() => jsonInput.value !== "" && !jsonError.value)
isValidJson == jsonInput.kind # "empty" /\ jsonError = NoError

\* a validation that reports nothing
validateJsonInputSilent(text) == NoError

\* validateJsonInput(): the value it leaves in jsonError
validateJsonInput(text) ==
    IF text.kind = "empty" THEN NoError
    ELSE LET parsed == JSONParse(text)
         IN IF parsed.ok THEN NoError
            ELSE [prefix |-> "Invalid JSON: ", msg |-> parsed.msg]

Init ==
    /\ jsonInput = EmptyText
    /\ jsonError = NoError
    /\ typescriptOutput = <<>>
    /\ interfaceName = RootObject
    /\ options = DefaultOptions
    /\ interfaces = <<>>
    /\ enumTypes = <<>>
    /\ visits = <<>>
    /\ lastCall = NoCall

\* the user edits the textarea: v-model, then @input="validateJsonInput"
InputText ==
    \E text \in TypedTexts :
        /\ jsonInput' = text
        /\ jsonError' = validateJsonInput(text)
        /\ UNCHANGED <<typescriptOutput, interfaceName, options, interfaces,
                       enumTypes, visits, lastCall>>

\* loadSampleJson()
loadSampleJson ==
    /\ jsonInput' = JsonText(SampleJson)
    /\ jsonError' = validateJsonInput(JsonText(SampleJson))
    /\ UNCHANGED <<typescriptOutput, interfaceName, options, interfaces,
                   enumTypes, visits, lastCall>>

\* a click on the Generate button (:disabled="!isValidJson"): generateTypeScript()
generateTypeScript ==
    /\ isValidJson
    /\ LET parsed == JSONParse(jsonInput)
       IN IF parsed.ok
          THEN LET c == convertJsonToTypeScript(parsed.value, interfaceName)
               IN /\ typescriptOutput' = c.output
                  /\ interfaces' = c.interfaces
                  /\ enumTypes' = c.enumTypes
                  /\ visits' = c.visits
                  /\ lastCall' = [set |-> TRUE, input |-> jsonInput,
                                   name |-> interfaceName, opts |-> options,
                                   prior |-> \/ lastCall.prior
                                             \/ /\ lastCall.set
                                                /\ \/ lastCall.input # jsonInput
                                                   \/ lastCall.name # interfaceName
                                                   \/ lastCall.opts # options]
                  /\ UNCHANGED <<jsonInput, jsonError, interfaceName, options>>
          ELSE /\ jsonError' = [prefix |-> "Error generating TypeScript: ",
                                msg |-> parsed.msg]
               /\ UNCHANGED <<jsonInput, typescriptOutput, interfaceName, options,
                              interfaces, enumTypes, visits, lastCall>>

\* the four checkboxes (v-model="options.<flag>")
ToggleOption ==
    \E flag \in {"detectEnums", "camelCase", "markOptional", "strictNullChecks"} :
        /\ options' = [options EXCEPT ![flag] = ~@]
        /\ UNCHANGED <<jsonInput, jsonError, typescriptOutput, interfaceName,
                       interfaces, enumTypes, visits, lastCall>>

\* the root interface name field (v-model="interfaceName")
SetInterfaceName ==
    \E name \in RootNames :
        /\ interfaceName' = name
        /\ UNCHANGED <<jsonInput, jsonError, typescriptOutput, options,
                       interfaces, enumTypes, visits, lastCall>>

Next ==
    \/ InputText
    \/ loadSampleJson
    \/ generateTypeScript
    \/ ToggleOption
    \/ SetInterfaceName

Spec == Init /\ [][Next]_vars

(***************************************************************************)
(* One conversion of every explored document, name and configuration: the  *)
(* state in which a document has been typed, and a click on Generate.      *)
(***************************************************************************)
ConvInit ==
    /\ jsonInput \in {JsonText(d) : d \in Docs}
    /\ jsonError = NoError
    /\ typescriptOutput = <<>>
    /\ interfaceName \in RootNames
    /\ options \in AllOptions
    /\ interfaces = <<>>
    /\ enumTypes = <<>>
    /\ visits = <<>>
    /\ lastCall = NoCall

ConvNext == generateTypeScript

ConvSpec == ConvInit /\ [][ConvNext]_vars

(***************************************************************************)
(* Reading the generated text.                                             *)
(***************************************************************************)
\* the output on display is the result of converting the present input
\* under the present name and options
CallIsCurrent ==
    /\ lastCall.set
    /\ lastCall.input = jsonInput
    /\ lastCall.name = interfaceName
    /\ lastCall.opts = options

Out == typescriptOutput

IsOpen(i) == Out[i].kind \in {"interface", "enum"}
IsBody(i) == Out[i].kind \in {"prop", "member"}

\* the line that opens the block to which line i belongs
BlockStart(i) ==
    CHOOSE j \in 1..i : IsOpen(j) /\ \A h \in (j + 1)..i : ~IsOpen(h)

BodyOf(j) == {i \in DOMAIN Out : IsBody(i) /\ BlockStart(i) = j}

BlockNames == {Out[i].name : i \in {h \in DOMAIN Out : IsOpen(h)}}

InterfaceAt(name) ==
    {j \in DOMAIN Out : Out[j].kind = "interface" /\ Out[j].name = name}

\* the rendered keys of the block opened at line j, top to bottom
RECURSIVE KeysFrom(_)
KeysFrom(i) ==
    IF i > Len(Out) \/ ~IsBody(i) THEN <<>>
    ELSE <<Out[i].name>> \o KeysFrom(i + 1)

Delimiters == {"(", ")", "[", "]", "|", " "}
PrimitiveTypes == {T_null, T_any, T_string, T_number, T_boolean}

\* the names in a type expression: its maximal runs of characters other
\* than parentheses, brackets, bars and blanks, the primitive types excepted
TypeNames(type) ==
    {SubSeq(type, a, b) : <<a, b>> \in
        {ab \in (DOMAIN type) \X (DOMAIN type) :
            /\ ab[1] <= ab[2]
            /\ \A i \in ab[1]..ab[2] : type[i] \notin Delimiters
            /\ (ab[1] = 1 \/ type[ab[1] - 1] \in Delimiters)
            /\ (ab[2] = Len(type) \/ type[ab[2] + 1] \in Delimiters)}}
    \ PrimitiveTypes

\* ^[A-Za-z_][A-Za-z0-9_]*$
IsTypeIdentifier(name) ==
    /\ name # <<>>
    /\ name[1] \in Lower \cup Upper \cup {"_"}
    /\ \A i \in DOMAIN name : name[i] \in WordChar

PropLines == {i \in DOMAIN Out : Out[i].kind = "prop"}

ObjectVisits == {i \in DOMAIN visits : visits[i].kind = "object"}
ArrayVisits == {i \in DOMAIN visits : visits[i].kind = "array"}

\* the decoded document of the present input
Decoded == JSONParse(jsonInput).value

\* C1: with detectEnums on, a property of the root object whose value is a
\* non-empty array of strings only is rendered with the type
\* <enum name>[], for every setting of the three other flags.
C1_EnumPropertyIsArrayOfEnum ==
    (CallIsCurrent /\ options.detectEnums /\ Decoded.t = "object") =>
        \A e \in Range(Decoded.props) :
            (e.v.t = "array" /\ e.v.items # <<>> /\ AllStrings(e.v.items)) =>
                \A j \in InterfaceAt(sanitizeInterfaceName(interfaceName)) :
                    \E i \in BodyOf(j) :
                        /\ Out[i].name = formatPropertyKey(e.k)
                        /\ Out[i].type =
                              sanitizeInterfaceName(interfaceName)
                              \o capitalizeFirstLetter(
                                    IF options.camelCase THEN toCamelCase(e.k) ELSE e.k)
                              \o EnumSuffix \o ArraySuffix

\* C2: every record or enum name that occurs in the type of a property
\* line of the output has an interface or enum block in that output.
C2_NoDanglingReference ==
    CallIsCurrent =>
        \A i \in PropLines : TypeNames(Out[i].type) \subseteq BlockNames

\* C2 witness: an output whose property lines refer to a record and to an
\* enum, the record being that of a key with a character that is stripped
C2_Witness ==
    /\ CallIsCurrent
    /\ \E i \in PropLines :
          /\ Out[i].name = <<"'">> \o K_a_dash_b \o <<"'">>
          /\ \E n \in TypeNames(Out[i].type) : InterfaceAt(n) # {}
    /\ \E i \in PropLines :
          \E n \in TypeNames(Out[i].type) :
             \E j \in DOMAIN Out : Out[j].kind = "enum" /\ Out[j].name = n

\* C3: every name after `interface` or `enum`, and every such name used in
\* a property type, is a valid type identifier.
C3_NamesAreIdentifiers ==
    CallIsCurrent =>
        /\ \A n \in BlockNames : IsTypeIdentifier(n)
        /\ \A i \in PropLines : \A n \in TypeNames(Out[i].type) : IsTypeIdentifier(n)

\* C4: the property lines of the block of the root object are in the order
\* in which the keys are written in the JSON text.
C4_WrittenKeyOrder ==
    (CallIsCurrent /\ jsonInput.doc.t = "object") =>
        \A j \in InterfaceAt(sanitizeInterfaceName(interfaceName)) :
            KeysFrom(j + 1) =
                [i \in DOMAIN jsonInput.doc.props |->
                    formatPropertyKey(jsonInput.doc.props[i].k)]

\* C5: whatever calls were made before, the output of a call is the one the
\* conversion of its (value, rootName, config) yields from two empty
\* registries, so that any two calls with the same triple return the same
\* output.
C5_SameTripleSameOutput ==
    CallIsCurrent =>
        LET acc == Walk(Decoded, interfaceName, <<>>, <<>>)
        IN /\ typescriptOutput = Render(acc.interfaces, acc.enumTypes)
           /\ interfaces = acc.interfaces
           /\ enumTypes = acc.enumTypes

\* C5 witness: a call made after a call with other arguments, both of which
\* registered something
C5_Witness ==
    /\ CallIsCurrent
    /\ lastCall.prior
    /\ interfaces # <<>>
    /\ enumTypes # <<>>

\* the distinct elements of a sequence, by the position of first occurrence
FirstSeen(seq) ==
    LET firsts == {i \in DOMAIN seq : \A j \in 1..(i - 1) : seq[j] # seq[i]}
        nth(n) == CHOOSE i \in firsts : Cardinality({h \in firsts : h < i}) = n - 1
    IN [n \in 1..Cardinality(firsts) |-> seq[nth(n)]]

RECURSIVE UnionOf(_)
UnionOf(members) ==
    IF Len(members) = 1 THEN members[1]
    ELSE members[1] \o <<" ", "|", " ">> \o UnionOf(Tail(members))

\* C6: a non-empty array that is not taken as an enum has the type T[] when
\* all its element types are the same text, and otherwise (T1 | T2 | ...)[]
\* of the distinct element types, each once, in first-seen order.
C6_ArrayTypeIsUnionOfDistinct ==
    \A a \in ArrayVisits :
        LET ts == visits[a].itemTypes
        IN /\ ts # <<>>
           /\ IF \A i \in DOMAIN ts : ts[i] = ts[1]
              THEN visits[a].type = ts[1] \o <<"[", "]">>
              ELSE visits[a].type =
                      <<"(">> \o UnionOf(FirstSeen(ts)) \o <<")", "[", "]">>

\* C6 witness: an array of three elements with two distinct element types,
\* the first of which occurs twice
C6_Witness ==
    \E a \in ArrayVisits :
        LET ts == visits[a].itemTypes
        IN /\ Len(ts) = 3
           /\ ts[1] = ts[3]
           /\ ts[1] # ts[2]
           /\ visits[a].type = <<"(">> \o ts[1] \o <<" ", "|", " ">> \o ts[2]
                               \o <<")", "[", "]">>

\* C7: whenever the text is non-empty and does not decode, jsonError holds
\* `Invalid JSON: <parser message>` and the Generate button is disabled; the
\* button is enabled, and the conversion was run, only on text that decodes.
C7_NoConversionOfInvalidText ==
    /\ (jsonInput.kind # "empty" /\ ~JSONParse(jsonInput).ok) =>
          /\ jsonError = [prefix |-> "Invalid JSON: ",
                          msg |-> JSONParse(jsonInput).msg]
          /\ ~isValidJson
    /\ isValidJson => JSONParse(jsonInput).ok
    /\ lastCall.set => JSONParse(lastCall.input).ok

\* C7 witness: malformed text in the textarea after a conversion was made
C7_Witness ==
    /\ jsonInput.kind = "bad"
    /\ jsonError.prefix = "Invalid JSON: "
    /\ lastCall.set

\* C8: for every object node visited, the interface block named by the
\* node's type has a property line for each key of the node.
C8_BlockHasEveryKey ==
    CallIsCurrent =>
        \A o \in ObjectVisits :
            \A j \in InterfaceAt(visits[o].type) :
                \A k \in Range(visits[o].keys) :
                    \E i \in BodyOf(j) : Out[i].name = formatPropertyKey(k)

\* C9: the block of a nested object comes before the block of the object
\* that encloses it, and the block of a root object is the last block.
C9_NestedBlocksFirst ==
    CallIsCurrent =>
        /\ \A o \in ObjectVisits :
              visits[o].encl # <<>> =>
                 \A n \in InterfaceAt(visits[o].type) :
                    \A e \in InterfaceAt(visits[o].encl[1]) : n < e
        /\ Decoded.t = "object" =>
              \A r \in InterfaceAt(sanitizeInterfaceName(interfaceName)) :
                 \A j \in DOMAIN Out : IsOpen(j) => j <= r

\* C10: within every block the rendered keys are pairwise distinct.
C10_DistinctKeysInBlock ==
    CallIsCurrent =>
        \A j \in DOMAIN Out :
            IsOpen(j) =>
                \A a, b \in BodyOf(j) : a # b => Out[a].name # Out[b].name

====
